---------------------------- MODULE Spec2Model ----------------------------
(***************************************************************************)
(* Model of monarch_tools/extractors/chase.py: the Chase statement         *)
(* extractor.  Text is modelled as sequences of one-character strings;     *)
(* the character U+2212 (unicode minus) is written "u2212", the en dash    *)
(* U+2013 "u2013".                                                         *)
(*                                                                         *)
(* A statement is given as the pages _read_all_pages_text returns, each    *)
(* page a list of lines already normalized by _norm (single blanks, no     *)
(* empty line), and as the matches the summary patterns find in the        *)
(* summary block: the heading, the account number, the date range and the  *)
(* labelled amounts in text order.  The existence check of the PDF file    *)
(* and the 4000-character window of the summary block are not modelled.    *)
(***************************************************************************)
EXTENDS Integers, Sequences, FiniteSets, TLC

VARIABLES
    raw,            \* Amount Interpreter: the raw amount token under test
    amount_dec,     \* Amount Interpreter: outcome of _amount_to_decimal(raw)
    amount_csv,     \* Amount Interpreter: outcome of _format_amount_for_csv(raw)
    doc,            \* the statement handed to extract_chase_statement_csvs
    pc,             \* position inside extract_chase_statement_csvs
    err,            \* the error raised to the caller, "" when none
    pages_text,     \* local pages_text: normalized pages, each a list of lines
    summary_fields, \* local summary_fields: field name -> value
    closing,        \* local closing_date (year) and closing_month
    summary_csv,    \* rows of <stem>.summary.csv written by this call
    txns,           \* local txns: the parsed transactions
    activity_csv    \* rows of <stem>.activity.csv written by this call

amount_vars == <<raw, amount_dec, amount_csv>>

extract_vars ==
    <<doc, pc, err, pages_text, summary_fields, closing, summary_csv, txns, activity_csv>>

vars == <<amount_vars, extract_vars>>

----------------------------------------------------------------------------
(* Bounds of the explored inputs *)

\* longest prefix (sign, currency, parenthesis, blank characters) of a token
MaxPre == 3

----------------------------------------------------------------------------
(* Character classes and string helpers *)

Digits == {"0", "1", "2", "3", "4", "5", "6", "7", "8", "9"}

SignChars == {"+", "-", "u2212"}

DigitVal(c) ==
    CASE c = "0" -> 0 [] c = "1" -> 1 [] c = "2" -> 2 [] c = "3" -> 3
      [] c = "4" -> 4 [] c = "5" -> 5 [] c = "6" -> 6 [] c = "7" -> 7
      [] c = "8" -> 8 [] c = "9" -> 9

StartsWith(s, c) == Len(s) >= 1 /\ s[1] = c

EndsWith(s, c) == Len(s) >= 1 /\ s[Len(s)] = c

\* s[n:] of Python, n counted from 0
From(s, n) == SubSeq(s, n + 1, Len(s))

RemoveChar(s, c) == SelectSeq(s, LAMBDA x : x # c)

HasChar(s, c) == \E i \in 1..Len(s) : s[i] = c

\* str.replace("−", "-")
ReplaceMinus(s) == [i \in 1..Len(s) |-> IF s[i] = "u2212" THEN "-" ELSE s[i]]

RECURSIVE LStrip(_)
LStrip(s) == IF StartsWith(s, " ") THEN LStrip(Tail(s)) ELSE s

RECURSIVE RStrip(_)
RStrip(s) == IF EndsWith(s, " ") THEN RStrip(SubSeq(s, 1, Len(s) - 1)) ELSE s

\* str.strip()
Strip(s) == RStrip(LStrip(s))

\* int() of a run of decimal digits
RECURSIVE ToInt(_)
ToInt(s) ==
    IF s = <<>> THEN 0
    ELSE 10 * ToInt(SubSeq(s, 1, Len(s) - 1)) + DigitVal(s[Len(s)])

----------------------------------------------------------------------------
(* decimal.Decimal: sign, coefficient, exponent *)

Dec(n, c, e) == [neg |-> n, coef |-> c, exp |-> e]

\* Decimal(s): [sign] digits [. digits] | [sign] . digits ; anything else
\* raises InvalidOperation
DecimalValid(s) ==
    LET b == IF StartsWith(s, "+") \/ StartsWith(s, "-") THEN Tail(s) ELSE s
    IN  /\ \A i \in 1..Len(b) : b[i] \in Digits \cup {"."}
        /\ Cardinality({i \in 1..Len(b) : b[i] = "."}) <= 1
        /\ \E i \in 1..Len(b) : b[i] \in Digits

DecimalOf(s) ==
    LET b == IF StartsWith(s, "+") \/ StartsWith(s, "-") THEN Tail(s) ELSE s
        dots == {i \in 1..Len(b) : b[i] = "."}
    IN  Dec(StartsWith(s, "-"), ToInt(RemoveChar(b, ".")),
            IF dots = {} THEN 0 ELSE (CHOOSE i \in dots : TRUE) - Len(b))

\* Decimal.__neg__: the negation of a zero is the unsigned zero
DecNeg(d) == IF d.coef = 0 THEN Dec(FALSE, 0, d.exp) ELSE Dec(~d.neg, d.coef, d.exp)

\* a comparison d >= 0 in place of d > 0
DecPos_or_zero(d) == ~d.neg

\* d > 0 and d < 0
DecPos(d) == d.coef > 0 /\ ~d.neg

DecNegative(d) == d.coef > 0 /\ d.neg

----------------------------------------------------------------------------
(* Amount Interpreter *)

NoDec == [st |-> "none", val |-> Dec(FALSE, 0, 0)]

DecRaise == [st |-> "raise", val |-> Dec(FALSE, 0, 0)]

DecOk(d) == [st |-> "ok", val |-> d]

\* _amount_to_decimal, lines 98-100: outer parentheses
a2d_unwrap(s) ==
    IF StartsWith(s, "(") /\ EndsWith(s, ")")
    THEN [neg |-> TRUE, s |-> SubSeq(s, 2, Len(s) - 1)]
    ELSE [neg |-> FALSE, s |-> s]

\* _amount_to_decimal, lines 102-112: explicit sign, else debit
a2d_sign(u) ==
    IF StartsWith(u.s, "+") THEN [neg |-> u.neg, s |-> Tail(u.s)]
    ELSE IF StartsWith(u.s, "-") THEN [neg |-> TRUE, s |-> Tail(u.s)]
    ELSE [neg |-> TRUE, s |-> u.s]

\* _amount_to_decimal, lines 114-120: currency symbol, commas, bare "."
a2d_numeric(s) ==
    LET s1 == IF StartsWith(s, "$") THEN Tail(s) ELSE s
        s2 == RemoveChar(s1, ",")
    IN  IF StartsWith(s2, ".") THEN <<"0">> \o s2 ELSE s2

amount_to_decimal(r) ==
    LET s0 == ReplaceMinus(RemoveChar(Strip(r), " "))
        u  == a2d_sign(a2d_unwrap(s0))
        n  == a2d_numeric(u.s)
    IN  IF ~DecimalValid(n) THEN DecRaise
        ELSE DecOk(IF u.neg THEN DecNeg(DecimalOf(n)) ELSE DecimalOf(n))

fix_decimal(token) == IF StartsWith(token, ".") THEN <<"0">> \o token ELSE token

\* _format_amount_for_csv, lines 146-153
fmt_paren(s) ==
    LET inner == fix_decimal(RemoveChar(SubSeq(s, 2, Len(s) - 1), "$"))
    IN  IF HasChar(s, "$") THEN <<"(", "$">> \o inner \o <<")">>
        ELSE <<"(">> \o inner \o <<")">>

\* _format_amount_for_csv, line 156
fmt_explicit(s) ==
    \/ StartsWith(s, "+") \/ StartsWith(s, "-")
    \/ (Len(s) >= 2 /\ s[1] = "$" /\ s[2] \in {"+", "-"})

\* _format_amount_for_csv, lines 157-162: "$-12.34" -> "-$12.34"
fmt_move_sign(s) ==
    IF Len(s) >= 2 /\ s[1] = "$" /\ s[2] \in {"+", "-"}
    THEN <<s[2], "$">> \o From(s, 2)
    ELSE s

\* _format_amount_for_csv, lines 166-181
fmt_fix(s) ==
    IF StartsWith(s, "+") \/ StartsWith(s, "-")
    THEN IF StartsWith(Tail(s), "$")
         THEN <<s[1], "$">> \o fix_decimal(From(s, 2))
         ELSE <<s[1]>> \o fix_decimal(Tail(s))
    ELSE IF StartsWith(s, "$") THEN <<"$">> \o fix_decimal(Tail(s))
    ELSE fix_decimal(s)

format_amount_for_csv(r) ==
    LET s0 == RemoveChar(ReplaceMinus(Strip(r)), " ")
    IN  IF StartsWith(s0, "(") /\ EndsWith(s0, ")") THEN fmt_paren(s0)
        ELSE LET s1 == fmt_fix(fmt_move_sign(s0))
             IN  IF ~fmt_explicit(s0) /\ ~StartsWith(s1, "(")
                 THEN <<"-">> \o s1
                 ELSE s1

----------------------------------------------------------------------------
(* TXN_LINE_RE, group amt *)

RECURSIVE SkipSpaces(_, _)
SkipSpaces(t, i) == IF i <= Len(t) /\ t[i] = " " THEN SkipSpaces(t, i + 1) ELSE i

SkipOpt(t, i, S) == IF i <= Len(t) /\ t[i] \in S THEN i + 1 ELSE i

RECURSIVE SkipDigitsCommas(_, _)
SkipDigitsCommas(t, i) ==
    IF i <= Len(t) /\ t[i] \in Digits \cup {","} THEN SkipDigitsCommas(t, i + 1) ELSE i

\* [+\-u2212]?\s*\$?\s*\(?\s*(?:\d[\d,]*|\d)?(?:\.\d{2})\s*\)?  over the whole of t
AmtMatch(t) ==
    LET i1 == SkipSpaces(t, SkipOpt(t, 1, SignChars))
        i2 == SkipSpaces(t, SkipOpt(t, i1, {"$"}))
        i3 == SkipSpaces(t, SkipOpt(t, i2, {"("}))
        i4 == IF i3 <= Len(t) /\ t[i3] \in Digits THEN SkipDigitsCommas(t, i3 + 1) ELSE i3
        i5 == SkipOpt(t, SkipSpaces(t, i4 + 3), {")"})
    IN  /\ i4 + 2 <= Len(t)
        /\ t[i4] = "."
        /\ t[i4 + 1] \in Digits
        /\ t[i4 + 2] \in Digits
        /\ i5 = Len(t) + 1

----------------------------------------------------------------------------
(* Amount tokens explored: a prefix, a numeral, a suffix *)

PreChars == {"+", "-", "u2212", "$", "(", " "}

RECURSIVE SeqsUpTo(_, _)
SeqsUpTo(S, n) ==
    IF n = 0 THEN {<<>>}
    ELSE LET R == SeqsUpTo(S, n - 1)
         IN  R \cup {Append(r, c) : r \in {x \in R : Len(x) = n - 1}, c \in S}

Numerals ==
    { <<".", "0", "0">>, <<".", "9", "9">>, <<"0", ".", "0", "0">>,
      <<"5", ".", "0", "0">>, <<"1", "2", ".", "3", "4">>,
      <<"1", ",", "2", "3", "4", ".", "5", "6">>, <<"5">>, <<"5", ".", "0">> }

Suffixes == { <<>>, <<")">>, <<" ", ")">> }

Tokens == { p \o n \o x : p \in SeqsUpTo(PreChars, MaxPre), n \in Numerals, x \in Suffixes }

----------------------------------------------------------------------------
(* Number formatting and Decimal arithmetic *)

DigitChar(n) ==
    CASE n = 0 -> "0" [] n = 1 -> "1" [] n = 2 -> "2" [] n = 3 -> "3"
      [] n = 4 -> "4" [] n = 5 -> "5" [] n = 6 -> "6" [] n = 7 -> "7"
      [] n = 8 -> "8" [] n = 9 -> "9"

\* str(n) of a natural number
RECURSIVE IntStr(_)
IntStr(n) == IF n < 10 THEN <<DigitChar(n)>> ELSE IntStr(n \div 10) \o <<DigitChar(n % 10)>>

Zeros(k) == [i \in 1..k |-> "0"]

\* f"{n:0wd}"
ZPad(n, w) ==
    LET s == IntStr(n) IN IF Len(s) < w THEN Zeros(w - Len(s)) \o s ELSE s

RECURSIVE Pow10(_)
Pow10(k) == IF k = 0 THEN 1 ELSE 10 * Pow10(k - 1)

\* an addition of magnitudes, the signs dropped
DecAdd_magnitudes(a, b) ==
    LET e == IF a.exp < b.exp THEN a.exp ELSE b.exp
    IN  Dec(FALSE, a.coef * Pow10(a.exp - e) + b.coef * Pow10(b.exp - e), e)

\* Decimal.__add__ (the sums stay far below the context precision of 28 digits)
DecAdd(a, b) ==
    LET e  == IF a.exp < b.exp THEN a.exp ELSE b.exp
        sa == (IF a.neg THEN -1 ELSE 1) * a.coef * Pow10(a.exp - e)
        sb == (IF b.neg THEN -1 ELSE 1) * b.coef * Pow10(b.exp - e)
        t  == sa + sb
    IN  IF t = 0 THEN Dec(a.neg /\ b.neg, 0, e)
        ELSE IF t < 0 THEN Dec(TRUE, -t, e) ELSE Dec(FALSE, t, e)

\* Decimal.__str__ for exponents <= 0
DecStr(d) ==
    LET digs == IntStr(d.coef)
        dot  == Len(digs) + d.exp
        body == IF d.exp = 0 THEN digs
                ELSE IF dot <= 0 THEN <<"0", ".">> \o Zeros(-dot) \o digs
                ELSE SubSeq(digs, 1, dot) \o <<".">> \o SubSeq(digs, dot + 1, Len(digs))
    IN  IF d.neg THEN <<"-">> \o body ELSE body

----------------------------------------------------------------------------
(* Dates *)

IsLeap(y) == (y % 4 = 0 /\ y % 100 # 0) \/ y % 400 = 0

DaysInMonth(y, m) ==
    IF m = 2 THEN (IF IsLeap(y) THEN 29 ELSE 28)
    ELSE IF m \in {4, 6, 9, 11} THEN 30 ELSE 31

\* datetime.date(y, m, d) accepts exactly these
DateValid(y, m, d) ==
    /\ y >= 1 /\ y <= 9999
    /\ m >= 1 /\ m <= 12
    /\ d >= 1 /\ d <= DaysInMonth(y, m)

\* a date token "M/D/Y" as matched by DATE_RANGE_RE
DateTok(m, d, y) == [m |-> m, d |-> d, y |-> y]

DateTokText(t) == t.m \o <<"/">> \o t.d \o <<"/">> \o t.y

\* _parse_mmddyyyy: the year after windowing
parse_year(t) ==
    LET y == ToInt(t.y)
    IN  IF y < 100 THEN (IF y <= 69 THEN y + 2000 ELSE y + 1900) ELSE y

parse_mmddyyyy(t) ==
    LET y == parse_year(t)
        m == ToInt(t.m)
        d == ToInt(t.d)
    IN  IF DateValid(y, m, d)
        THEN [st |-> "ok", year |-> y, month |-> m, day |-> d]
        ELSE [st |-> "raise", year |-> 0, month |-> 0, day |-> 0]

\* the closing month itself taken for a month of the year before
infer_year_ge(mm, closing_year, closing_month) ==
    IF mm >= closing_month THEN closing_year - 1 ELSE closing_year

\* _parse_transactions, line 337
infer_year(mm, closing_year, closing_month) ==
    IF mm > closing_month THEN closing_year - 1 ELSE closing_year

\* _parse_transactions, line 338
date_iso_of(year, mm, dd) ==
    ZPad(year, 4) \o <<"-">> \o ZPad(mm, 2) \o <<"-">> \o ZPad(dd, 2)

----------------------------------------------------------------------------
(* Summary section *)

SUMMARY_FIELDS_ORDER ==
    << "Account Number", "Previous Balance", "Payment, Credits", "Purchases",
       "Cash Advances", "Balance Transfers", "Fees Charged", "Interest Charged",
       "New Balance", "Opening/Closing Date", "Credit Access Line",
       "Available Credit", "Cash Access Line", "Available for Cash",
       "Past Due Amount", "Balance over the Credit Access Line" >>

\* the keys of label_map, in its order
GrabLabels ==
    << "Previous Balance", "Payment, Credits", "Purchases", "Cash Advances",
       "Balance Transfers", "Fees Charged", "Interest Charged", "New Balance",
       "Credit Access Line", "Available Credit", "Cash Access Line",
       "Available for Cash", "Past Due Amount",
       "Balance over the Credit Access Line" >>

Range(f) == {f[i] : i \in DOMAIN f}

\* the text "<written> <amount>" matches \b<label>\b\s*[: ]\s*(<amount>): the
\* written label is the searched one or ends with it
label_hit(label, written) ==
    \/ written = label
    \/ (label = "Credit Access Line" /\ written = "Balance over the Credit Access Line")

\* grab, lines 233-251: blanks removed, ".99" -> "0.99" behind sign and "$"
grab_norm(v) ==
    LET s == RemoveChar(ReplaceMinus(Strip(v)), " ")
    IN  IF StartsWith(s, "+") \/ StartsWith(s, "-")
        THEN IF StartsWith(Tail(s), "$")
             THEN <<s[1], "$">> \o fix_decimal(From(s, 2))
             ELSE <<s[1]>> \o fix_decimal(Tail(s))
        ELSE IF StartsWith(s, "$") THEN <<"$">> \o fix_decimal(Tail(s))
        ELSE fix_decimal(s)

grab_hits(entries, label) == {i \in 1..Len(entries) : label_hit(label, entries[i].label)}

\* grab, lines 230-232: the leftmost match
grab(entries, label) ==
    LET H == grab_hits(entries, label)
    IN  grab_norm(entries[CHOOSE i \in H : \A j \in H : i <= j].val)

\* _extract_summary_fields, lines 271-279
field_value(entries, out_field) ==
    IF out_field = "Purchases" THEN RemoveChar(grab(entries, out_field), "$")
    ELSE grab(entries, out_field)

range_text(s) == DateTokText(s.open) \o <<" ", "u2013", " ">> \o DateTokText(s.close)

\* _extract_summary_fields: the fields dict
extract_summary_fields(s) ==
    LET found == {l \in Range(GrabLabels) : grab_hits(s.entries, l) # {}}
        keys  == (IF s.acct_found THEN {"Account Number"} ELSE {})
                 \cup {"Opening/Closing Date"} \cup found
    IN  [f \in keys |->
            IF f = "Account Number" THEN Strip(s.acct)
            ELSE IF f = "Opening/Closing Date" THEN range_text(s)
            ELSE field_value(s.entries, f)]

\* dict.setdefault(key, "")
setdefault(d, key) ==
    IF key \in DOMAIN d THEN d
    ELSE [f \in DOMAIN d \cup {key} |-> IF f = key THEN <<>> ELSE d[f]]

\* dict.get(key, "")
get(d, key) == IF key \in DOMAIN d THEN d[key] ELSE <<>>

\* one row per field of the dict in place of one per catalogued field
summary_rows_found(fields) ==
    << <<"Field", "Value">> >> \o
    SelectSeq([i \in 1..Len(SUMMARY_FIELDS_ORDER) |->
                  <<SUMMARY_FIELDS_ORDER[i], get(fields, SUMMARY_FIELDS_ORDER[i])>>],
              LAMBDA r : r[1] \in DOMAIN fields)

\* extract_chase_statement_csvs, lines 375-379
summary_rows(fields) ==
    << <<"Field", "Value">> >> \o
    [i \in 1..Len(SUMMARY_FIELDS_ORDER) |->
        <<SUMMARY_FIELDS_ORDER[i], get(fields, SUMMARY_FIELDS_ORDER[i])>>]

----------------------------------------------------------------------------
(* Pages and lines.  A line of a normalized page is one of                 *)
(*   "hdr"   a line containing ACCOUNT ACTIVITY,                           *)
(*   "acct"  a line ending in the word ACCOUNT,                            *)
(*   "actv"  a line beginning with the word ACTIVITY,                      *)
(*   "text"  any other line that does not start with a M/D token,          *)
(*   "blank" an empty line,                                                *)
(*   "md"    the line  mm "/" dd " " rest .                                *)

Line(k, mm, dd, rest) == [k |-> k, mm |-> mm, dd |-> dd, rest |-> rest]

HdrLine == Line("hdr", <<>>, <<>>, <<>>)

AcctLine == Line("acct", <<>>, <<>>, <<>>)

ActvLine == Line("actv", <<>>, <<>>, <<>>)

TextLine == Line("text", <<>>, <<>>, <<>>)

PageBreak == Line("pagebreak", <<>>, <<>>, <<>>)

\* _read_all_pages_text: one list of lines per page of the document
RECURSIVE read_all_pages_text(_)
read_all_pages_text(items) ==
    LET B == {i \in 1..Len(items) : items[i] = PageBreak}
    IN  IF B = {} THEN <<items>>
        ELSE LET i == CHOOSE x \in B : \A y \in B : x <= y
             IN  <<SubSeq(items, 1, i - 1)>> \o
                 read_all_pages_text(SubSeq(items, i + 1, Len(items)))

\* ACCOUNT_ACTIVITY_RE.search(page): \s+ also matches the line break
page_has_heading(page) ==
    \/ \E i \in 1..Len(page) : page[i].k = "hdr"
    \/ \E i \in 1..(Len(page) - 1) : page[i].k = "acct" /\ page[i + 1].k = "actv"

\* _iter_activity_lines, lines 296-300: index (from 0) of the first line that
\* matches ACCOUNT_ACTIVITY_RE, 0 when no single line does
start_idx(page) ==
    LET H == {i \in 1..Len(page) : page[i].k = "hdr"}
    IN  IF H = {} THEN 0 ELSE (CHOOSE i \in H : \A j \in H : i <= j) - 1

\* _iter_activity_lines, lines 289-307, for one page
page_activity_lines(page) ==
    IF ~page_has_heading(page) THEN <<>>
    ELSE SelectSeq(SubSeq(page, start_idx(page) + 2, Len(page)),
                   LAMBDA ln : ln.k # "blank")

RECURSIVE iter_activity_lines(_)
iter_activity_lines(pages) ==
    IF pages = <<>> THEN <<>>
    ELSE page_activity_lines(Head(pages)) \o iter_activity_lines(Tail(pages))

----------------------------------------------------------------------------
(* Transactions *)

\* TXN_LINE_RE on "mm/dd rest": the places where desc may end
txn_splits(rest) ==
    {i \in 1..(Len(rest) - 2) :
        rest[i + 1] = " " /\ AmtMatch(SubSeq(rest, i + 2, Len(rest)))}

\* TXN_LINE_RE.match(ln)
txn_match(ln) == ln.k = "md" /\ txn_splits(ln.rest) # {}

\* desc is non-greedy: the first place
txn_split(ln) == CHOOSE i \in txn_splits(ln.rest) : \A j \in txn_splits(ln.rest) : i <= j

txn_amt_raw(ln) == Strip(SubSeq(ln.rest, txn_split(ln) + 2, Len(ln.rest)))

RECURSIVE LStripAmp(_)
LStripAmp(s) == IF StartsWith(s, "&") THEN LStripAmp(Tail(s)) ELSE s

\* _parse_transactions, lines 327-331
txn_desc(ln) == Strip(LStripAmp(Strip(SubSeq(ln.rest, 1, txn_split(ln)))))

\* _parse_transactions, lines 326-343, for a matching line whose amount parses
transaction_of(ln, closing_year, closing_month) ==
    LET mm == ToInt(ln.mm)
        dd == ToInt(ln.dd)
    IN  [ date_iso    |-> date_iso_of(infer_year(mm, closing_year, closing_month), mm, dd),
          description |-> txn_desc(ln),
          amount_str  |-> format_amount_for_csv(txn_amt_raw(ln)),
          amount_dec  |-> amount_to_decimal(txn_amt_raw(ln)).val ]

RECURSIVE parse_lines(_, _, _)
parse_lines(lines, closing_year, closing_month) ==
    IF lines = <<>> THEN <<>>
    ELSE (IF txn_match(Head(lines))
          THEN <<transaction_of(Head(lines), closing_year, closing_month)>>
          ELSE <<>>)
         \o parse_lines(Tail(lines), closing_year, closing_month)

\* _parse_transactions raises on the first matching line whose amount does not parse
parse_raises(lines) ==
    \E i \in 1..Len(lines) :
        txn_match(lines[i]) /\ amount_to_decimal(txn_amt_raw(lines[i])).st = "raise"

\* extract_chase_statement_csvs, lines 386-389
credit_txns(ts) == SelectSeq(ts, LAMBDA t : DecPos(t.amount_dec))

debit_txns(ts) == SelectSeq(ts, LAMBDA t : DecNegative(t.amount_dec))

RECURSIVE sum_amounts(_)
sum_amounts(ts) ==
    IF ts = <<>> THEN Dec(FALSE, 0, 0)
    ELSE DecAdd(sum_amounts(SubSeq(ts, 1, Len(ts) - 1)), ts[Len(ts)].amount_dec)

\* extract_chase_statement_csvs, lines 401-404
footer_rows(ts) ==
    << <<"Credit transactions (count)", <<>>, IntStr(Len(credit_txns(ts)))>>,
       <<"Debit transactions (count)", <<>>, IntStr(Len(debit_txns(ts)))>>,
       <<"Total credits", <<>>, DecStr(sum_amounts(credit_txns(ts)))>>,
       <<"Total debits", <<>>, DecStr(sum_amounts(debit_txns(ts)))>> >>

\* extract_chase_statement_csvs, lines 394-404
activity_rows(ts) ==
    << <<"Date", "Description", "Amount">> >> \o
    [i \in 1..Len(ts) |-> <<ts[i].date_iso, ts[i].description, ts[i].amount_str>>] \o
    << <<>> >> \o
    footer_rows(ts)

----------------------------------------------------------------------------
(* Statements explored *)

\* most lines and page breaks of a statement (ledger shapes)
MaxItems == 4

\* most transaction lines under the heading (footer figures)
MaxTxns == 3

\* largest month and day numbers written on a transaction line
MaxMM == 13

MaxDD == 32

\* most labelled amounts in the summary section
MaxEntries == 2

Summary(heading, acct_found, has_range, open, close, entries) ==
    [ heading |-> heading, acct_found |-> acct_found,
      acct |-> IF acct_found THEN <<"X", "X", "X", "X", " ", "1", "2", "3", "4">> ELSE <<>>,
      has_range |-> has_range, open |-> open, close |-> close, entries |-> entries ]

Doc(summary, items) == [summary |-> summary, items |-> items]

\* "12/13/17" and "01/12/18"
OpenTok == DateTok(<<"1", "2">>, <<"1", "3">>, <<"1", "7">>)

CloseTok == DateTok(<<"0", "1">>, <<"1", "2">>, <<"1", "8">>)

SummaryOk == Summary(TRUE, TRUE, TRUE, OpenTok, CloseTok, <<>>)

MdLine(mm, dd, desc, amt) == Line("md", mm, dd, desc \o <<" ">> \o amt)

\* "01/05 A 5.00"
DebitLine == MdLine(<<"0", "1">>, <<"0", "5">>, <<"A">>, <<"5", ".", "0", "0">>)

\* "12/13 &B +45.00"
CreditLine == MdLine(<<"1", "2">>, <<"1", "3">>, <<"&", "B">>, <<"+", "4", "5", ".", "0", "0">>)

\* "1/7 C +(5.00)": accepted by TXN_LINE_RE
BadAmountLine == MdLine(<<"1">>, <<"7">>, <<"C">>, <<"+", "(", "5", ".", "0", "0", ")">>)

\* statements on which each fatal condition arises
ErrorDocs ==
    { Doc(Summary(FALSE, FALSE, FALSE, OpenTok, CloseTok, <<>>), <<HdrLine, DebitLine>>),
      Doc(Summary(TRUE, TRUE, FALSE, OpenTok, CloseTok, <<>>), <<HdrLine, DebitLine>>),
      Doc(Summary(TRUE, TRUE, TRUE, DateTok(<<"2">>, <<"3", "0">>, <<"1", "8">>), CloseTok, <<>>),
          <<HdrLine, DebitLine>>),
      Doc(Summary(TRUE, TRUE, TRUE, OpenTok, DateTok(<<"1", "3">>, <<"4", "5">>, <<"1", "8">>), <<>>),
          <<HdrLine, DebitLine>>),
      Doc(SummaryOk, <<HdrLine, DebitLine, BadAmountLine, CreditLine>>) }

LedgerItems == {HdrLine, AcctLine, ActvLine, TextLine, PageBreak, DebitLine, CreditLine}

LedgerDocs == {Doc(SummaryOk, it) : it \in SeqsUpTo(LedgerItems, MaxItems)}

AmountLines ==
    { MdLine(<<"0", "1">>, <<"0", "5">>, <<"A">>, a) :
        a \in { <<"1", "2", ".", "3", "4">>, <<"+", "4", "5", ".", "0", "0">>,
                <<"5", ".", "0", "0">>, <<".", "0", "0">>,
                <<"+", "(", "5", ".", "0", "0", ")">>,
                <<"(", "$", "5", ".", "0", "0", ")">> } }

FooterDocs == {Doc(SummaryOk, <<HdrLine>> \o ls) : ls \in SeqsUpTo(AmountLines, MaxTxns)}

ClosingToks ==
    { CloseTok,
      DateTok(<<"1", "2">>, <<"3", "1">>, <<"2", "0", "1", "7">>),
      DateTok(<<"6">>, <<"1", "5">>, <<"7", "0">>),
      DateTok(<<"2">>, <<"2", "9">>, <<"1", "6">>) }

\* a number written with one or two digits
Written(n) == {IntStr(n)} \cup (IF n < 10 THEN {ZPad(n, 2)} ELSE {})

DateDocs ==
    { Doc(Summary(TRUE, TRUE, TRUE, OpenTok, c, <<>>),
          <<HdrLine, MdLine(mm, dd, <<"A">>, <<"5", ".", "0", "0">>)>>) :
        c \in ClosingToks,
        mm \in UNION {Written(n) : n \in 0..MaxMM},
        dd \in UNION {Written(n) : n \in 0..MaxDD} }

\* "$1,234.56" and "-$.99"
SummaryAmounts ==
    { <<"$", "1", ",", "2", "3", "4", ".", "5", "6">>, <<"-", "$", ".", "9", "9">> }

\* every label with "$1,234.56", Purchases also with "-$.99"
SummaryEntries ==
    {[label |-> l, val |-> <<"$", "1", ",", "2", "3", "4", ".", "5", "6">>] : l \in Range(GrabLabels)}
    \cup {[label |-> "Purchases", val |-> v] : v \in SummaryAmounts}

SummaryDocs ==
    { Doc(Summary(TRUE, a, TRUE, OpenTok, CloseTok, es), <<HdrLine, DebitLine>>) :
        a \in BOOLEAN, es \in SeqsUpTo(SummaryEntries, MaxEntries) }

IdleDoc == Doc(Summary(FALSE, FALSE, FALSE, OpenTok, CloseTok, <<>>), <<>>)

----------------------------------------------------------------------------
(* extract_chase_statement_csvs *)

NoClosing == [year |-> 0, month |-> 0]

InitExtract(D) ==
    /\ doc \in D
    /\ pc = "start"
    /\ err = ""
    /\ pages_text = <<>>
    /\ summary_fields = <<>>
    /\ closing = NoClosing
    /\ summary_csv = <<>>
    /\ txns = <<>>
    /\ activity_csv = <<>>
    /\ raw = <<>>
    /\ amount_dec = NoDec
    /\ amount_csv = <<>>

\* lines 359-360
ReadAllPages ==
    /\ pc = "start"
    /\ pages_text' = read_all_pages_text(doc.items)
    /\ pc' = "summary"
    /\ UNCHANGED <<doc, err, summary_fields, closing, summary_csv, txns, activity_csv>>
    /\ UNCHANGED amount_vars

Raise(e) ==
    /\ pc' = "raised"
    /\ err' = e
    /\ UNCHANGED <<doc, pages_text, summary_fields, closing, summary_csv, txns, activity_csv>>
    /\ UNCHANGED amount_vars

\* _extract_summary_block, lines 195-197
RaiseSectionNotFound ==
    /\ pc = "summary"
    /\ ~doc.summary.heading
    /\ Raise("Could not find ACCOUNT SUMMARY section")

\* _extract_summary_fields, lines 215-217
RaiseDateRangeNotFound ==
    /\ pc = "summary"
    /\ doc.summary.heading
    /\ ~doc.summary.has_range
    /\ Raise("Could not find Opening/Closing Date in summary")

\* _extract_summary_fields, lines 218-219: date() rejects the day or the month
RaiseDateParse ==
    /\ pc = "summary"
    /\ doc.summary.heading
    /\ doc.summary.has_range
    /\ \/ parse_mmddyyyy(doc.summary.open).st = "raise"
       \/ parse_mmddyyyy(doc.summary.close).st = "raise"
    /\ Raise("bad date")

\* lines 362-366
ExtractSummary ==
    /\ pc = "summary"
    /\ doc.summary.heading
    /\ doc.summary.has_range
    /\ parse_mmddyyyy(doc.summary.open).st = "ok"
    /\ parse_mmddyyyy(doc.summary.close).st = "ok"
    /\ summary_fields' = setdefault(extract_summary_fields(doc.summary), "Account Number")
    /\ closing' = [ year  |-> parse_mmddyyyy(doc.summary.close).year,
                    month |-> parse_mmddyyyy(doc.summary.close).month ]
    /\ pc' = "write_summary"
    /\ UNCHANGED <<doc, err, pages_text, summary_csv, txns, activity_csv>>
    /\ UNCHANGED amount_vars

\* lines 375-379
WriteSummaryCsv ==
    /\ pc = "write_summary"
    /\ summary_csv' = summary_rows(summary_fields)
    /\ pc' = "activity"
    /\ UNCHANGED <<doc, err, pages_text, summary_fields, closing, txns, activity_csv>>
    /\ UNCHANGED amount_vars

\* lines 382-383, _amount_to_decimal raising ValueError
RaiseAmountParse ==
    /\ pc = "activity"
    /\ parse_raises(iter_activity_lines(pages_text))
    /\ Raise("cannot parse amount")

\* lines 382-383
ParseActivity ==
    /\ pc = "activity"
    /\ ~parse_raises(iter_activity_lines(pages_text))
    /\ txns' = parse_lines(iter_activity_lines(pages_text), closing.year, closing.month)
    /\ pc' = "write_activity"
    /\ UNCHANGED <<doc, err, pages_text, summary_fields, closing, summary_csv, activity_csv>>
    /\ UNCHANGED amount_vars

\* lines 386-404, then return
WriteActivityCsv ==
    /\ pc = "write_activity"
    /\ activity_csv' = activity_rows(txns)
    /\ pc' = "done"
    /\ UNCHANGED <<doc, err, pages_text, summary_fields, closing, summary_csv, txns>>
    /\ UNCHANGED amount_vars

Next ==
    \/ ReadAllPages
    \/ RaiseSectionNotFound
    \/ RaiseDateRangeNotFound
    \/ RaiseDateParse
    \/ ExtractSummary
    \/ WriteSummaryCsv
    \/ RaiseAmountParse
    \/ ParseActivity
    \/ WriteActivityCsv

\* ledger shapes: pages, headings, lines
Spec == InitExtract(ErrorDocs \cup LedgerDocs) /\ [][Next]_vars

\* footer figures: amounts of every sign
SpecFooter == InitExtract(ErrorDocs \cup FooterDocs) /\ [][Next]_vars

\* transaction dates against closing dates
SpecDates == InitExtract(ErrorDocs \cup DateDocs) /\ [][Next]_vars

\* summary sections
SpecSummary == InitExtract(ErrorDocs \cup SummaryDocs) /\ [][Next]_vars

----------------------------------------------------------------------------
(* The Amount Interpreter applied to one token *)

NoCsv == <<"?">>

InitAmount ==
    /\ raw \in Tokens
    /\ amount_dec = NoDec
    /\ amount_csv = NoCsv
    /\ doc = IdleDoc
    /\ pc = "idle"
    /\ err = ""
    /\ pages_text = <<>>
    /\ summary_fields = <<>>
    /\ closing = NoClosing
    /\ summary_csv = <<>>
    /\ txns = <<>>
    /\ activity_csv = <<>>

AmountToDecimal ==
    /\ amount_dec.st = "none"
    /\ amount_to_decimal(raw).st = "ok"
    /\ amount_dec' = amount_to_decimal(raw)
    /\ UNCHANGED <<raw, amount_csv>>
    /\ UNCHANGED extract_vars

AmountToDecimalRaise ==
    /\ amount_dec.st = "none"
    /\ amount_to_decimal(raw).st = "raise"
    /\ amount_dec' = DecRaise
    /\ UNCHANGED <<raw, amount_csv>>
    /\ UNCHANGED extract_vars

FormatAmountForCsv ==
    /\ amount_csv = NoCsv
    /\ amount_csv' = format_amount_for_csv(raw)
    /\ UNCHANGED <<raw, amount_dec>>
    /\ UNCHANGED extract_vars

NextAmount == AmountToDecimal \/ AmountToDecimalRaise \/ FormatAmountForCsv

SpecAmount == InitAmount /\ [][NextAmount]_vars

----------------------------------------------------------------------------
(* Properties of the Amount Interpreter (SpecAmount) *)

Converted == amount_dec.st = "ok" /\ amount_csv # NoCsv

Parenthesized(s) == StartsWith(s, "(") /\ EndsWith(s, ")")

\* C1: sign consistency - for every token that both conversions convert, the
\* exact value is negative if and only if the display string begins with "-"
\* or is parenthesized.
C1_SignConsistency ==
    Converted =>
        (DecNegative(amount_dec.val)
            <=> (StartsWith(amount_csv, "-") \/ Parenthesized(amount_csv)))

\* the token of a transaction: accepted by the line pattern, stripped, converted
TxnToken == AmtMatch(raw) /\ Converted

\* C2: sign convention - parentheses give a negative value and a parenthesized
\* display; "+" a positive value and a display beginning with "+"; "-" a
\* negative value and a display beginning with "-"; no sign and no parentheses
\* a negative value and the token with "-" prefixed as display.
C2_SignConvention ==
    LET t == ReplaceMinus(Strip(raw))
    IN  TxnToken =>
          /\ Parenthesized(t) =>
                DecNegative(amount_dec.val) /\ Parenthesized(amount_csv)
          /\ StartsWith(t, "+") =>
                DecPos(amount_dec.val) /\ StartsWith(amount_csv, "+")
          /\ StartsWith(t, "-") =>
                DecNegative(amount_dec.val) /\ StartsWith(amount_csv, "-")
          /\ (~Parenthesized(t) /\ ~StartsWith(t, "+") /\ ~StartsWith(t, "-")) =>
                DecNegative(amount_dec.val) /\ amount_csv = <<"-">> \o t

\* C8: pattern and parser in sync - every token the transaction-line pattern
\* accepts is converted to an exact decimal, never rejected.
C8_PatternParserInSync ==
    (AmtMatch(raw) /\ amount_dec.st # "none") => amount_dec.st = "ok"

----------------------------------------------------------------------------
(* Properties of an extraction call *)

\* the transaction rows of a written activity table: between the header row
\* and the blank row
TxnRows == SubSeq(activity_csv, 2, Len(activity_csv) - 5)

\* the four footer cells of a written activity table
FooterCell(k) == activity_csv[Len(activity_csv) - 4 + k][3]

\* C4: a call that ends in a fatal condition has written neither output.
C4_FatalWritesNothing ==
    pc = "raised" => (summary_csv = <<>> /\ activity_csv = <<>>)

\* the lines of a page after its first line from H, none when H is empty
LinesAfterFirst(page, H) ==
    IF H = {} THEN <<>>
    ELSE SubSeq(page, (CHOOSE i \in H : \A j \in H : i <= j) + 1, Len(page))

\* the heading lines of a page: the lines containing ACCOUNT ACTIVITY
HeadingLines(page) == {i \in 1..Len(page) : page[i].k = "hdr"}

\* the same, a heading broken over two lines counted on its second line
HeadingEnds(page) ==
    HeadingLines(page) \cup
    {i \in 2..Len(page) : page[i].k = "actv" /\ page[i - 1].k = "acct"}

RowOf(ln) ==
    LET t == transaction_of(ln, closing.year, closing.month)
    IN  <<t.date_iso, t.description, t.amount_str>>

\* the rows of the lines after the first heading of each page that are not
\* empty and match the transaction shape, in page order and line order
RECURSIVE ClaimedRows(_, _)
ClaimedRows(pages, broken) ==
    IF pages = <<>> THEN <<>>
    ELSE LET page == Head(pages)
             H == IF broken THEN HeadingEnds(page) ELSE HeadingLines(page)
             ls == SelectSeq(LinesAfterFirst(page, H),
                             LAMBDA ln : ln.k # "blank" /\ txn_match(ln))
         IN  [i \in 1..Len(ls) |-> RowOf(ls[i])] \o ClaimedRows(Tail(pages), broken)

\* C5: the transaction rows are exactly, in page order and line order, the
\* lines after the first ACCOUNT ACTIVITY heading line of each page that match
\* the transaction shape; a page without the heading contributes nothing.
\* (Whether a heading broken over two lines counts as a heading is left open:
\* either reading satisfies the formula.)
C5_InOrderFilter ==
    pc = "done" =>
        \/ TxnRows = ClaimedRows(pages_text, FALSE)
        \/ TxnRows = ClaimedRows(pages_text, TRUE)

\* the matching activity lines, one per parsed transaction
MatchedLines == SelectSeq(iter_activity_lines(pages_text), txn_match)

IsoYear(s) == ToInt(SubSeq(s, 1, 4))

\* C3: year inference - a transaction of month mm is dated closing_year - 1
\* when mm > closing_month and closing_year otherwise; a statement closing on
\* 01/12/18 closes in January 2018.
C3_YearInference ==
    pc = "done" =>
        /\ Len(TxnRows) = Len(MatchedLines)
        /\ \A i \in 1..Len(TxnRows) :
              IsoYear(TxnRows[i][1]) =
                  IF ToInt(MatchedLines[i].mm) > closing.month
                  THEN closing.year - 1
                  ELSE closing.year
        /\ doc.summary.close = CloseTok => (closing.year = 2018 /\ closing.month = 1)

\* closing 01/12/18, a 12/13 line dated 2017-12-13
C3_Witness ==
    /\ pc = "done"
    /\ doc.summary.close = CloseTok
    /\ Len(TxnRows) = 1
    /\ TxnRows[1][1] = <<"2", "0", "1", "7", "-", "1", "2", "-", "1", "3">>

\* YYYY-MM-DD naming a day of the calendar
IsIsoCalendarDate(s) ==
    /\ Len(s) = 10
    /\ s[5] = "-" /\ s[8] = "-"
    /\ \A i \in {1, 2, 3, 4, 6, 7, 9, 10} : s[i] \in Digits
    /\ DateValid(ToInt(SubSeq(s, 1, 4)), ToInt(SubSeq(s, 6, 7)), ToInt(SubSeq(s, 9, 10)))

\* C9: every transaction row carries an ISO date that exists in the calendar.
C9_CalendarDates ==
    pc = "done" => \A i \in 1..Len(TxnRows) : IsIsoCalendarDate(TxnRows[i][1])

\* a transaction value in hundredths
Cents(d) == (IF d.neg THEN -1 ELSE 1) * d.coef * Pow10(d.exp + 2)

Values == [i \in 1..Len(txns) |-> Cents(txns[i].amount_dec)]

RECURSIVE SumWhere(_, _)
SumWhere(vs, positive) ==
    IF vs = <<>> THEN 0
    ELSE SumWhere(Tail(vs), positive)
         + (IF (positive /\ Head(vs) > 0) \/ (~positive /\ Head(vs) < 0) THEN Head(vs) ELSE 0)

\* the hundredths a decimal text denotes: digits, or digits "." two digits
TextCents(s) ==
    LET b == IF StartsWith(s, "-") THEN Tail(s) ELSE s
        m == IF HasChar(b, ".") THEN ToInt(RemoveChar(b, ".")) ELSE 100 * ToInt(b)
    IN  IF StartsWith(s, "-") THEN -m ELSE m

IsDecimalText(s) ==
    LET b == IF StartsWith(s, "-") THEN Tail(s) ELSE s
    IN  /\ Len(b) >= 1
        /\ \/ \A i \in 1..Len(b) : b[i] \in Digits
           \/ /\ Len(b) >= 4
              /\ b[Len(b) - 2] = "."
              /\ \A i \in 1..Len(b) : i # Len(b) - 2 => b[i] \in Digits

\* C6: footer totals - the credit count is the number of values > 0, the
\* debit count the number of values < 0, the totals are the exact sums of the
\* positive and of the negative values; [-12.34, 45.00, -5.00] give 1, 2,
\* 45.00 and -17.34; total credits >= 0 and total debits <= 0.
C6_FooterTotals ==
    pc = "done" =>
        /\ FooterCell(1) = IntStr(Cardinality({i \in 1..Len(txns) : Values[i] > 0}))
        /\ FooterCell(2) = IntStr(Cardinality({i \in 1..Len(txns) : Values[i] < 0}))
        /\ IsDecimalText(FooterCell(3)) /\ TextCents(FooterCell(3)) = SumWhere(Values, TRUE)
        /\ IsDecimalText(FooterCell(4)) /\ TextCents(FooterCell(4)) = SumWhere(Values, FALSE)
        /\ ~StartsWith(FooterCell(3), "-")
        /\ TextCents(FooterCell(4)) <= 0
        /\ Values = <<-1234, 4500, -500>> =>
              /\ FooterCell(1) = <<"1">>
              /\ FooterCell(2) = <<"2">>
              /\ FooterCell(3) = <<"4", "5", ".", "0", "0">>
              /\ FooterCell(4) = <<"-", "1", "7", ".", "3", "4">>

\* the ledger -12.34, 45.00, -5.00 written with its footer
C6_Witness == pc = "done" /\ Values = <<-1234, 4500, -500>>

NotInText(field) ==
    IF field = "Account Number" THEN ~doc.summary.acct_found
    ELSE IF field = "Opening/Closing Date" THEN ~doc.summary.has_range
    ELSE \A i \in 1..Len(doc.summary.entries) :
            ~label_hit(field, doc.summary.entries[i].label)

\* C7: field completeness - the Summary table has exactly 16 data rows, one
\* per catalogued field in catalogue order, Account Number first and Balance
\* over the Credit Access Line last; a field not found has an empty value.
C7_FieldCompleteness ==
    summary_csv # <<>> =>
        /\ Len(summary_csv) = 1 + 16
        /\ summary_csv[2][1] = "Account Number"
        /\ summary_csv[17][1] = "Balance over the Credit Access Line"
        /\ \A i \in 1..16 :
              /\ summary_csv[i + 1][1] = SUMMARY_FIELDS_ORDER[i]
              /\ NotInText(SUMMARY_FIELDS_ORDER[i]) => summary_csv[i + 1][2] = <<>>

\* New Balance met before Purchases in the text, no account number
C7_Witness ==
    /\ summary_csv # <<>>
    /\ ~doc.summary.acct_found
    /\ Len(doc.summary.entries) = 2
    /\ doc.summary.entries[1].label = "New Balance"
    /\ doc.summary.entries[2].label = "Purchases"
    /\ summary_csv[5][2] # <<>>
    /\ summary_csv[3][2] = <<>>

=============================================================================
